---------------------------- MODULE Spec2Model ----------------------------
(* Model of tinygrad/ops/ops_gpu.py: the differentiable operators of the   *)
(* GPU backend.  A state is the device heap (Buffer objects and the        *)
(* storage they point to), the Function context of the operator being     *)
(* evaluated, the value returned by the last forward/backward call, the   *)
(* log of device primitives that call dispatched and the history of the   *)
(* calls made so far.                                                     *)
(*                                                                         *)
(* Buffer contents are terms: an input element is a symbol, a device       *)
(* kernel applied to elements is the application of its expression string *)
(* to them.  Numbers (used by Max) are exact values (n + m*eps)/(d+e*eps) *)
(* with eps standing for the 1e-10 start value of Max.backward's divisor. *)
EXTENDS Integers, Sequences, FiniteSets, TLC

VARIABLES bufs, mem, ctx, pc, out, err, log, call, history

vars == <<bufs, mem, ctx, pc, out, err, log, call, history>>

(* ------------------------------ bounds ------------------------------ *)
MaxDim == 3
MaxRank == 2

(* ----------------------------- sequences ---------------------------- *)
RECURSIVE prod(_)
prod(s) == IF Len(s) = 0 THEN 1 ELSE s[1] * prod(Tail(s))

Max2(a, b) == IF a >= b THEN a ELSE b

RECURSIVE ShapesOfRank(_, _)
ShapesOfRank(n, dims) ==
  IF n = 0 THEN {<<>>}
  ELSE {<<d>> \o s : d \in dims, s \in ShapesOfRank(n - 1, dims)}

Padded(s, n) == [d \in 1..n |-> IF d <= Len(s) THEN s[d] ELSE 1]

(* row-major multi-index (0-based components) of the 0-based flat index k *)
Unravel(k, shape) ==
  [d \in 1..Len(shape) |->
     (k \div prod(SubSeq(shape, d + 1, Len(shape)))) % shape[d]]

RECURSIVE RavelFrom(_, _, _, _)
RavelFrom(d, acc, idx, shape) ==
  IF d > Len(shape) THEN acc
  ELSE RavelFrom(d + 1, acc * shape[d] + idx[d], idx, shape)

Ravel(idx, shape) == RavelFrom(1, 0, idx, shape)

(* ------------------------------- terms ------------------------------ *)
Sym(name, i) == <<"sym", name, i>>
Uninit == <<"uninit">>
NegInf == <<"-inf">>
Q(n, m, d, e) == <<"q", n, m, d, e>>
Num(n) == Q(n, 0, 1, 0)
Eps == Q(0, 1, 1, 0)
IsQ(a) == a[1] = "q"
IsInt(a) == IsQ(a) /\ a[3] = 0 /\ a[4] = 1 /\ a[5] = 0
IsZero(a) == IsQ(a) /\ a[2] = 0 /\ a[3] = 0
App1(code, a) == <<"app1", code, a>>
App2(code, a, b) == <<"app2", code, a, b>>

Start(s) ==
  CASE s = "0.0" -> Num(0)
    [] s = "-INFINITY" -> NegInf
    [] s = "1e-10" -> Eps

(* the value a kernel expression computes from its operands a and b (in   *)
(* a reduce kernel a is the accumulator `out` and b the element `a`)      *)
Apply2(code, a, b) ==
  CASE code = "a" -> a
    [] code = "1.0*(a==b)" /\ IsQ(a) /\ IsQ(b) -> Num(IF a = b THEN 1 ELSE 0)
    [] code = "a/b" /\ IsQ(a) /\ IsQ(b) /\ a[4] = 1 /\ a[5] = 0
                    /\ b[4] = 1 /\ b[5] = 0 /\ ~IsZero(b) ->
         IF IsZero(a) THEN Num(0) ELSE Q(a[2], a[3], b[2], b[3])
    [] code = "a*b" /\ IsQ(a) /\ IsInt(b) ->
         IF IsZero(a) \/ IsZero(b) THEN Num(0)
         ELSE Q(a[2] * b[2], a[3] * b[2], a[4], a[5])
    [] code = "a*b" /\ IsInt(a) /\ IsQ(b) ->
         IF IsZero(a) \/ IsZero(b) THEN Num(0)
         ELSE Q(a[2] * b[2], a[2] * b[3], b[4], b[5])
    [] code = "out += a" /\ IsQ(a) /\ IsQ(b) /\ a[4] = b[4] /\ a[5] = b[5] ->
         Q(a[2] + b[2], a[3] + b[3], a[4], a[5])
    [] code = "out = max(a,out)" /\ a = NegInf -> b
    [] code = "out = max(a,out)" /\ IsInt(a) /\ IsInt(b) ->
         IF b[2] >= a[2] THEN b ELSE a
    [] OTHER -> App2(code, a, b)

Apply1(code, a) == App1(code, a)

(* ------------------------------ device ------------------------------ *)
(* llops.opencl: GPUBuffer and the kernels the operators dispatch.  A     *)
(* machine m is [bufs, mem, log]: bufs[id] is a Buffer object (its shape  *)
(* and the storage cl it points to), mem[cl] the row-major contents.      *)
EmptyMachine == [bufs |-> <<>>, mem |-> <<>>, log |-> <<>>]

Shape(m, id) == m.bufs[id].shape
Data(m, id) == m.mem[m.bufs[id].cl]
Last(m) == Len(m.bufs)

(* Buffer(shape): a new object over new, uninitialised storage *)
Buffer(m, shape) ==
  [m EXCEPT !.bufs = Append(@, [shape |-> shape, cl |-> Len(m.mem) + 1]),
            !.mem = Append(@, [i \in 1..prod(shape) |-> Uninit])]

(* Buffer(shape, hostbuf=b): a new object over the storage of b *)
BufferHost(m, shape, hostbuf) ==
  [m EXCEPT !.bufs = Append(@, [shape |-> shape, cl |-> m.bufs[hostbuf].cl])]

(* a tensor the caller holds: a buffer whose elements are the symbols     *)
(* name[0], name[1], ...                                                  *)
Tensor(m, shape, name) ==
  [m EXCEPT !.bufs = Append(@, [shape |-> shape, cl |-> Len(m.mem) + 1]),
            !.mem = Append(@, [i \in 1..prod(shape) |-> Sym(name, i - 1)])]

(* a kernel run: ret's storage is overwritten and the dispatch is logged *)
Dispatch(m, prim, code, ins, ret, data) ==
  [m EXCEPT !.mem[m.bufs[ret].cl] = data,
            !.log = Append(@, [prim |-> prim, code |-> code, ins |-> ins,
                               out |-> ret, grad |-> 0])]

(* helpers.binary_broadcast: shapes are padded with trailing ones *)
Broadcastable(x_shape, y_shape) ==
  LET n == Max2(Len(x_shape), Len(y_shape))
      sx == Padded(x_shape, n)
      sy == Padded(y_shape, n)
  IN \A d \in 1..n : sx[d] = 1 \/ sy[d] = 1 \/ sx[d] = sy[d]

binary_broadcast(x_shape, y_shape) ==
  LET n == Max2(Len(x_shape), Len(y_shape))
      sx == Padded(x_shape, n)
      sy == Padded(y_shape, n)
  IN [d \in 1..n |-> Max2(sx[d], sy[d])]

(* flat index into an operand of shape s for the flat index k of the      *)
(* broadcast result of shape sr                                           *)
BroadcastIndex(k, sr, s) ==
  LET ps == Padded(s, Len(sr))
      idx == Unravel(k, sr)
  IN Ravel([d \in 1..Len(sr) |-> IF ps[d] = 1 THEN 0 ELSE idx[d]], ps)

unary_op(m, code, x, ret) ==
  LET X == Data(m, x)
  IN Dispatch(m, "unary_op", code, <<x>>, ret,
              [k \in 1..prod(Shape(m, ret)) |-> Apply1(code, X[k])])

binary_op(m, code, x, y, ret) ==
  LET X == Data(m, x)
      Y == Data(m, y)
      sr == Shape(m, ret)
  IN Dispatch(m, "binary_op", code, <<x, y>>, ret,
              [k \in 1..prod(sr) |->
                 Apply2(code, X[BroadcastIndex(k - 1, sr, Shape(m, x)) + 1],
                              Y[BroadcastIndex(k - 1, sr, Shape(m, y)) + 1])])

(* index into the input of the x-th element reduced into output gid: a    *)
(* dimension the two shapes share comes from gid, a reduced one from x    *)
RECURSIVE ReduceIndex(_, _, _, _, _, _, _, _)
ReduceIndex(d, idx, tprod, tsz, gid, x, shape_x, shape_ret) ==
  IF d > Len(shape_x) THEN idx
  ELSE IF shape_x[d] = shape_ret[d]
       THEN ReduceIndex(d + 1,
                        idx * shape_x[d] + ((gid \div (tprod \div shape_x[d])) % shape_x[d]),
                        tprod \div shape_x[d], tsz, gid, x, shape_x, shape_ret)
       ELSE ReduceIndex(d + 1,
                        idx * shape_x[d] + ((x \div (tsz \div shape_x[d])) % shape_x[d]),
                        tprod, tsz \div shape_x[d], gid, x, shape_x, shape_ret)

RECURSIVE ReduceLoop(_, _, _, _, _, _, _, _)
ReduceLoop(code, acc, x, sz, gid, A, shape_x, shape_ret) ==
  IF x >= sz THEN acc
  ELSE ReduceLoop(code,
                  Apply2(code, acc,
                         A[ReduceIndex(1, 0, prod(shape_ret), sz, gid, x,
                                       shape_x, shape_ret) + 1]),
                  x + 1, sz, gid, A, shape_x, shape_ret)

reduce_op(m, code, inp, ret, start) ==
  LET A == Data(m, inp)
      shape_x == Shape(m, inp)
      shape_ret == Padded(Shape(m, ret), Len(shape_x))
      sz == prod(shape_x) \div prod(shape_ret)
  IN Dispatch(m, "reduce_op", code, <<inp>>, ret,
              [k \in 1..prod(shape_ret) |->
                 ReduceLoop(code, Start(start), 0, sz, k - 1, A, shape_x, shape_ret)])

(* --------------------------- Function context ----------------------- *)
None == 0

NewCtx(op, needs_input_grad) ==
  [op |-> op, needs_input_grad |-> needs_input_grad, saved_tensors |-> <<>>,
   stride |-> <<>>, groups |-> 1, order |-> <<>>, arg |-> <<>>, axis |-> <<>>]

save_for_backward(c, tensors) ==
  [c EXCEPT !.saved_tensors = @ \o tensors]

(* the dispatches made between machines m0 and m1 are those of the        *)
(* expression that computes the gradient of input g                       *)
ForGrad(m0, m1, g) ==
  [m1 EXCEPT !.log = [i \in 1..Len(m1.log) |->
                        IF i > Len(m0.log) THEN [m1.log[i] EXCEPT !.grad = g]
                        ELSE m1.log[i]]]

Returned(m, c, ret) == [m |-> m, ctx |-> c, ret |-> ret, err |-> ""]
Raised(m, c, e) == [m |-> m, ctx |-> c, ret |-> <<>>, err |-> e]

(* ------------------------------ unary ops --------------------------- *)
fop(op) ==
  CASE op = "ReLU" -> "max(a, (float)0.)"
    [] op = "Log" -> "log(a)"
    [] op = "Exp" -> "exp(a)"

bop(op) ==
  CASE op = "ReLU" -> "b * (a >= 0)"
    [] op = "Log" -> "b / a"
    [] op = "Exp" -> "b * exp(a)"

UnaryOp_forward(m, c, input) ==
  LET c1 == save_for_backward(c, <<input>>)
      m1 == Buffer(m, Shape(m, input))
  IN Returned(unary_op(m1, fop(c.op), input, Last(m1)), c1, <<Last(m1)>>)

(* UnaryOp.backward writing its result over grad_output *)
UnaryOp_backward_in_place(m, c, grad_output) ==
  LET input == c.saved_tensors[1]
  IN Returned(binary_op(m, bop(c.op), input, grad_output, grad_output), c, <<grad_output>>)

UnaryOp_backward(m, c, grad_output) ==
  LET input == c.saved_tensors[1]
      m1 == Buffer(m, Shape(m, input))
  IN Returned(binary_op(m1, bop(c.op), input, grad_output, Last(m1)), c, <<Last(m1)>>)

(* ------------------------------ reduce ops -------------------------- *)
(* axis is the set of (0-based) axes that are reduced *)
reduce_shape(shape, axis) ==
  [d \in 1..Len(shape) |-> IF (d - 1) \in axis THEN 1 ELSE shape[d]]

Sum_forward(m, c, input) ==
  LET c1 == save_for_backward(c, <<Shape(m, input)>>)
      m1 == Buffer(m, reduce_shape(Shape(m, input), c.axis))
  IN Returned(reduce_op(m1, "out += a", input, Last(m1), "0.0"), c1, <<Last(m1)>>)

Sum_backward(m, c, grad_output) ==
  LET shape_input == c.saved_tensors[1]
      m1 == Buffer(m, shape_input)
      ret == Last(m1)
  IN Returned(binary_op(m1, "a", grad_output, ret, ret), c, <<ret>>)

Max_forward(m, c, input) ==
  LET m1 == Buffer(m, reduce_shape(Shape(m, input), c.axis))
      ret == Last(m1)
      m2 == reduce_op(m1, "out = max(a,out)", input, ret, "-INFINITY")
  IN Returned(m2, save_for_backward(c, <<input, c.axis, ret>>), <<ret>>)

(* Max.backward without the division by the number of maxima *)
Max_backward_no_division(m, c, grad_output) ==
  LET input == c.saved_tensors[1]
      axis == c.saved_tensors[2]
      ret == c.saved_tensors[3]
      m1 == Buffer(m, Shape(m, input))
      ret2 == Last(m1)
      m2 == binary_op(m1, "1.0*(a==b)", input, ret, ret2)
  IN Returned(binary_op(m2, "a*b", ret2, grad_output, ret2), c, <<ret2>>)

Max_backward(m, c, grad_output) ==
  LET input == c.saved_tensors[1]
      axis == c.saved_tensors[2]
      ret == c.saved_tensors[3]
      m1 == Buffer(m, Shape(m, input))
      ret2 == Last(m1)
      m2 == binary_op(m1, "1.0*(a==b)", input, ret, ret2)
      m3 == Buffer(m2, reduce_shape(Shape(m2, ret2), axis))
      div == Last(m3)
      m4 == reduce_op(m3, "out += a", ret2, div, "1e-10")
      m5 == binary_op(m4, "a/b", ret2, div, ret2)
  IN Returned(binary_op(m5, "a*b", ret2, grad_output, ret2), c, <<ret2>>)

(* ----------------------------- binary ops --------------------------- *)
(* unbroadcast with the reduction target allocated in the shape of out *)
unbroadcast_out_shape(m, o, in_sh) ==
  LET m1 == Buffer(m, Shape(m, o))
  IN reduce_op(m1, "out += a", o, Last(m1), "0.0")

unbroadcast(m, o, in_sh) ==
  LET m1 == Buffer(m, in_sh)
  IN reduce_op(m1, "out += a", o, Last(m1), "0.0")

BinaryForward(m, c, code, saved, x, y) ==
  LET c1 == save_for_backward(c, saved)
  IN IF ~Broadcastable(Shape(m, x), Shape(m, y)) THEN Raised(m, c1, "Exception")
     ELSE LET m1 == Buffer(m, binary_broadcast(Shape(m, x), Shape(m, y)))
              m2 == binary_op(m1, code, x, y, Last(m1))
          IN Returned(m2, c1, <<Last(m1)>>)

Add_forward(m, c, x, y) ==
  BinaryForward(m, c, "a+b", <<Shape(m, x), Shape(m, y)>>, x, y)

Add_backward(m, c, grad_output) ==
  LET shape_x == c.saved_tensors[1]
      shape_y == c.saved_tensors[2]
      m1 == IF c.needs_input_grad[1]
            THEN ForGrad(m, unbroadcast(m, grad_output, shape_x), 1) ELSE m
      gx == IF c.needs_input_grad[1] THEN Last(m1) ELSE None
      m2 == IF c.needs_input_grad[2]
            THEN ForGrad(m1, unbroadcast(m1, grad_output, shape_y), 2) ELSE m1
      gy == IF c.needs_input_grad[2] THEN Last(m2) ELSE None
  IN Returned(m2, c, <<gx, gy>>)

Sub_forward(m, c, x, y) ==
  BinaryForward(m, c, "a-b", <<Shape(m, x), Shape(m, y)>>, x, y)

Sub_backward(m, c, grad_output) ==
  LET shape_x == c.saved_tensors[1]
      shape_y == c.saved_tensors[2]
      m1 == IF c.needs_input_grad[1]
            THEN ForGrad(m, unbroadcast(m, grad_output, shape_x), 1) ELSE m
      gx == IF c.needs_input_grad[1] THEN Last(m1) ELSE None
      n1 == Buffer(m1, Shape(m1, grad_output))
      n2 == unary_op(n1, "-a", grad_output, Last(n1))
      m2 == IF c.needs_input_grad[2]
            THEN ForGrad(m1, unbroadcast(n2, Last(n1), shape_y), 2) ELSE m1
      gy == IF c.needs_input_grad[2] THEN Last(m2) ELSE None
  IN Returned(m2, c, <<gx, gy>>)

Mul_forward(m, c, x, y) == BinaryForward(m, c, "a*b", <<x, y>>, x, y)

(* Mul.backward returning tmp itself instead of reducing it into a buffer *)
(* of the input's shape                                                   *)
Mul_backward_shared_tmp(m, c, grad_output) ==
  LET x == c.saved_tensors[1]
      y == c.saved_tensors[2]
      m0 == Buffer(m, Shape(m, grad_output))
      tmp == Last(m0)
      m1 == IF c.needs_input_grad[1]
            THEN ForGrad(m0, binary_op(m0, "a*b", y, grad_output, tmp), 1)
            ELSE m0
      grad_x == IF c.needs_input_grad[1] THEN tmp ELSE None
      m2 == IF c.needs_input_grad[2]
            THEN ForGrad(m1, binary_op(m1, "a*b", x, grad_output, tmp), 2)
            ELSE m1
      grad_y == IF c.needs_input_grad[2] THEN tmp ELSE None
  IN Returned(m2, c, <<grad_x, grad_y>>)

Mul_backward(m, c, grad_output) ==
  LET x == c.saved_tensors[1]
      y == c.saved_tensors[2]
      m0 == Buffer(m, Shape(m, grad_output))
      tmp == Last(m0)
      m1 == IF c.needs_input_grad[1]
            THEN ForGrad(m0, unbroadcast(binary_op(m0, "a*b", y, grad_output, tmp),
                                         tmp, Shape(m, x)), 1)
            ELSE m0
      grad_x == IF c.needs_input_grad[1] THEN Last(m1) ELSE None
      m2 == IF c.needs_input_grad[2]
            THEN ForGrad(m1, unbroadcast(binary_op(m1, "a*b", x, grad_output, tmp),
                                         tmp, Shape(m, y)), 2)
            ELSE m1
      grad_y == IF c.needs_input_grad[2] THEN Last(m2) ELSE None
  IN Returned(m2, c, <<grad_x, grad_y>>)

Pow_forward(m, c, x, y) == BinaryForward(m, c, "pow(a,b)", <<x, y>>, x, y)

Pow_backward(m, c, grad_output) ==
  LET x == c.saved_tensors[1]
      y == c.saved_tensors[2]
      m0 == Buffer(m, Shape(m, grad_output))
      tmp == Last(m0)
      m1 == IF c.needs_input_grad[1]
            THEN ForGrad(m0,
                   unbroadcast(binary_op(binary_op(m0, "b * pow(a, b-1.0f)", x, y, tmp),
                                         "a*b", grad_output, tmp, tmp),
                               tmp, Shape(m, x)), 1)
            ELSE m0
      grad_x == IF c.needs_input_grad[1] THEN Last(m1) ELSE None
      m2 == IF c.needs_input_grad[2]
            THEN ForGrad(m1,
                   unbroadcast(binary_op(binary_op(m1, "log(a) * pow(a, b)", x, y, tmp),
                                         "a*b", grad_output, tmp, tmp),
                               tmp, Shape(m, y)), 2)
            ELSE m1
      grad_y == IF c.needs_input_grad[2] THEN Last(m2) ELSE None
  IN Returned(m2, c, <<grad_x, grad_y>>)

(* ----------------------------- movement ops ------------------------- *)
(* Python's and numpy's floor division; numpy's integer x // 0 is 0 *)
FloorDiv(a, b) ==
  IF b = 0 THEN 0
  ELSE IF b > 0
       THEN (IF a >= 0 THEN a \div b ELSE -(((-a) + b - 1) \div b))
       ELSE (IF a <= 0 THEN (-a) \div (-b) ELSE -((a + (-b) - 1) \div (-b)))

(* Reshape.forward without the minus sign in front of np.prod(x.shape) *)
Reshape_forward_unnegated(m, c, x, shape) ==
  LET c1 == save_for_backward(c, <<Shape(m, x)>>)
      shape1 == [i \in 1..Len(shape) |->
                   IF shape[i] = -1
                   THEN FloorDiv(prod(Shape(m, x)), prod(shape))
                   ELSE shape[i]]
      m1 == BufferHost(m, shape1, x)
      r == Last(m1)
  IN IF prod(Shape(m, x)) = prod(Shape(m1, r))
     THEN Returned(m1, c1, <<r>>)
     ELSE Raised(m1, c1, "AssertionError")

Reshape_forward(m, c, x, shape) ==
  LET c1 == save_for_backward(c, <<Shape(m, x)>>)
      shape1 == [i \in 1..Len(shape) |->
                   IF shape[i] = -1
                   THEN FloorDiv(-prod(Shape(m, x)), prod(shape))
                   ELSE shape[i]]
      m1 == BufferHost(m, shape1, x)
      r == Last(m1)
  IN IF prod(Shape(m, x)) = prod(Shape(m1, r))
     THEN Returned(m1, c1, <<r>>)
     ELSE Raised(m1, c1, "AssertionError")

Reshape_backward(m, c, grad_output) ==
  LET in_shape == c.saved_tensors[1]
      m1 == BufferHost(m, in_shape, grad_output)
  IN Returned(m1, c, <<Last(m1)>>)

(* llops.opencl.perm_axis: ret[i] = inp[j] with j[order[d]] = i[d] *)
perm_axis(m, inp, order, ret) ==
  LET A == Data(m, inp)
      si == Shape(m, inp)
      sr == Shape(m, ret)
      src(k) == LET i == Unravel(k, sr)
                IN Ravel([a \in 1..Len(si) |->
                            i[CHOOSE d \in 1..Len(order) : order[d] = a - 1]], si)
  IN Dispatch(m, "perm_axis", order, <<inp>>, ret,
              [k \in 1..prod(sr) |-> A[src(k - 1) + 1]])

(* the permutation itself in place of its inverse *)
argsort_identity(order) == order

(* numpy.argsort: the positions of the elements in increasing order *)
argsort(order) ==
  [k \in 1..Len(order) |->
     (CHOOSE j \in 1..Len(order) :
        Cardinality({i \in 1..Len(order) :
                       order[i] < order[j] \/ (order[i] = order[j] /\ i < j)}) = k - 1) - 1]

Transposed(shape, order) == [d \in 1..Len(order) |-> shape[order[d] + 1]]

Transpose_forward(m, c, x) ==
  LET c1 == save_for_backward(c, <<c.order>>)
      m1 == Buffer(m, Transposed(Shape(m, x), c.order))
  IN Returned(perm_axis(m1, x, c.order, Last(m1)), c1, <<Last(m1)>>)

Transpose_backward(m, c, grad_output) ==
  LET norder == argsort(c.order)
      m1 == Buffer(m, Transposed(Shape(m, grad_output), norder))
  IN Returned(perm_axis(m1, grad_output, norder, Last(m1)), c, <<Last(m1)>>)

(* llops.opencl.inner_slice: ret[i] = x[i + start], 0.0 outside x *)
inner_slice(m, x, arg, ret) ==
  LET A == Data(m, x)
      sx == Shape(m, x)
      sr == Shape(m, ret)
      elem(k) == LET i == Unravel(k, sr)
                     sidx == [d \in 1..Len(sr) |-> i[d] + arg[d][1]]
                 IN IF \A d \in 1..Len(sr) : sidx[d] >= 0 /\ sidx[d] < sx[d]
                    THEN A[Ravel(sidx, sx) + 1]
                    ELSE Num(0)
  IN Dispatch(m, "inner_slice", arg, <<x>>, ret, [k \in 1..prod(sr) |-> elem(k - 1)])

Slice_forward(m, c, x) ==
  LET c1 == save_for_backward(c, <<Shape(m, x)>>)
      m1 == Buffer(m, [i \in 1..Len(c.arg) |-> c.arg[i][2] - c.arg[i][1]])
  IN Returned(inner_slice(m1, x, c.arg, Last(m1)), c1, <<Last(m1)>>)

(* Slice.backward with p[0] in place of 0-p[0] *)
Slice_backward_same_start(m, c, grad_output) ==
  LET shape == c.saved_tensors[1]
      narg == [i \in 1..Len(c.arg) |-> <<c.arg[i][1], c.arg[i][1] + shape[i]>>]
      m1 == Buffer(m, [i \in 1..Len(narg) |-> narg[i][2] - narg[i][1]])
  IN Returned(inner_slice(m1, grad_output, narg, Last(m1)), c, <<Last(m1)>>)

Slice_backward(m, c, grad_output) ==
  LET shape == c.saved_tensors[1]
      narg == [i \in 1..Len(c.arg) |->
                 <<0 - c.arg[i][1],
                   Shape(m, grad_output)[i] + (shape[i] - c.arg[i][2])>>]
      m1 == Buffer(m, [i \in 1..Len(narg) |-> narg[i][2] - narg[i][1]])
  IN Returned(inner_slice(m1, grad_output, narg, Last(m1)), c, <<Last(m1)>>)

(* ---------------------------- processing ops ------------------------ *)
Fma(acc, a, b) == <<"fma", acc, a, b>>

(* acc += a*b over the pairs <<a, b>> of terms, in order; <<>> is skipped *)
RECURSIVE FmaSeq(_, _)
FmaSeq(acc, pairs) ==
  IF Len(pairs) = 0 THEN acc
  ELSE FmaSeq(IF Len(pairs[1]) = 0 THEN acc ELSE Fma(acc, pairs[1][1], pairs[1][2]),
              Tail(pairs))

(* the element i of the contents D; outside D a kernel reads memory the   *)
(* buffer does not own, whose value is unknown                            *)
At(D, i) == IF i \in 1..Len(D) THEN D[i] ELSE Uninit

(* the last two axes of a shape; a shape of one axis is a single row *)
Rows(s) == IF Len(s) >= 2 THEN s[Len(s) - 1] ELSE 1
Cols(s) == s[Len(s)]

(* llops.opencl.matmul: ret = op(a) x op(b) on the last two axes, batch   *)
(* by batch of ret                                                        *)
matmul(m, a, b, ret, transpose_a, transpose_b) ==
  LET A == Data(m, a)
      B == Data(m, b)
      sa == Shape(m, a)
      sb == Shape(m, b)
      sr == Shape(m, ret)
      M == Rows(sr)
      N == Cols(sr)
      ra == Rows(sa)
      ca == Cols(sa)
      rb == Rows(sb)
      cb == Cols(sb)
      K == IF transpose_a THEN ra ELSE ca
      elem(k) ==
        LET bt == k \div (M * N)
            i == (k \div N) % M
            j == k % N
        IN FmaSeq(Num(0),
             [kk \in 1..K |->
                <<At(A, bt * ra * ca
                        + (IF transpose_a THEN (kk - 1) * ca + i ELSE i * ca + (kk - 1)) + 1),
                  At(B, bt * rb * cb
                        + (IF transpose_b THEN j * cb + (kk - 1) ELSE (kk - 1) * cb + j) + 1)>>])
  IN Dispatch(m, "matmul", <<transpose_a, transpose_b>>, <<a, b>>, ret,
              [k \in 1..prod(sr) |-> elem(k - 1)])

(* Matmul.forward with the assertion after save_for_backward *)
Matmul_forward_late_assert(m, c, input, weight) ==
  LET si == Shape(m, input)
      sw == Shape(m, weight)
      c1 == save_for_backward(c, <<input, weight>>)
  IN IF Len(sw) < 2 THEN Raised(m, c1, "IndexError")
     ELSE IF si[Len(si)] # sw[Len(sw) - 1] THEN Raised(m, c1, "AssertionError")
     ELSE LET m1 == Buffer(m, SubSeq(si, 1, Len(si) - 1) \o <<sw[Len(sw)]>>)
              ret == Last(m1)
          IN Returned(matmul(m1, input, weight, ret, FALSE, FALSE), c1, <<ret>>)

Matmul_forward(m, c, input, weight) ==
  LET si == Shape(m, input)
      sw == Shape(m, weight)
  IN IF Len(sw) < 2 THEN Raised(m, c, "IndexError")
     ELSE IF si[Len(si)] # sw[Len(sw) - 1] THEN Raised(m, c, "AssertionError")
     ELSE LET m1 == Buffer(m, SubSeq(si, 1, Len(si) - 1) \o <<sw[Len(sw)]>>)
              ret == Last(m1)
              c1 == save_for_backward(c, <<input, weight>>)
          IN Returned(matmul(m1, input, weight, ret, FALSE, FALSE), c1, <<ret>>)

Matmul_backward(m, c, grad_output) ==
  LET input == c.saved_tensors[1]
      weight == c.saved_tensors[2]
      n1 == Buffer(m, Shape(m, input))
      m1 == IF c.needs_input_grad[1]
            THEN ForGrad(m, matmul(n1, grad_output, weight, Last(n1), FALSE, TRUE), 1)
            ELSE m
      grad_input == IF c.needs_input_grad[1] THEN Last(m1) ELSE None
      n2 == Buffer(m1, Shape(m, weight))
      m2 == IF c.needs_input_grad[2]
            THEN ForGrad(m1, matmul(n2, input, grad_output, Last(n2), TRUE, FALSE), 2)
            ELSE m1
      grad_weight == IF c.needs_input_grad[2] THEN Last(m2) ELSE None
  IN Returned(m2, c, <<grad_input, grad_weight>>)

(* conv_args = H, W, groups, rcout, cin, oy, ox, iy, ix, ys, xs, bs *)
ConvArgs(H, W, groups, rcout, cin, oy, ox, iy, ix, ys, xs, bs) ==
  [H |-> H, W |-> W, groups |-> groups, rcout |-> rcout, cin |-> cin, oy |-> oy,
   ox |-> ox, iy |-> iy, ix |-> ix, ys |-> ys, xs |-> xs, bs |-> bs]

(* llops.opencl.conv: out[b, g*rcout+c, Y, X] =                            *)
(*   sum over ci, y, x of x[b, g*cin+ci, Y*ys+y, X*xs+x] * w[g*rcout+c, ci, y, x] *)
conv(m, x, w, ret, a) ==
  LET XD == Data(m, x)
      WD == Data(m, w)
      sx == <<a.bs, a.cin * a.groups, a.iy, a.ix>>
      sw == <<a.rcout * a.groups, a.cin, a.H, a.W>>
      sr == <<a.bs, a.rcout * a.groups, a.oy, a.ox>>
      sk == <<a.cin, a.H, a.W>>
      elem(k) ==
        LET o == Unravel(k, sr)
            g == o[2] \div a.rcout
        IN FmaSeq(Num(0),
             [t \in 1..prod(sk) |->
                LET i == Unravel(t - 1, sk)
                IN <<XD[Ravel(<<o[1], g * a.cin + i[1], o[3] * a.ys + i[2],
                                o[4] * a.xs + i[3]>>, sx) + 1],
                     WD[Ravel(<<o[2], i[1], i[2], i[3]>>, sw) + 1]>>])
  IN Dispatch(m, "conv", a, <<x, w>>, ret, [k \in 1..prod(sr) |-> elem(k - 1)])

(* llops.opencl.convdw: dw[g*rcout+c, ci, y, x] =                          *)
(*   sum over b, Y, X of x[b, g*cin+ci, Y*ys+y, X*xs+x] * grad[b, g*rcout+c, Y, X] *)
convdw(m, x, grad_output, ret, a) ==
  LET XD == Data(m, x)
      GD == Data(m, grad_output)
      sx == <<a.bs, a.cin * a.groups, a.iy, a.ix>>
      sw == <<a.rcout * a.groups, a.cin, a.H, a.W>>
      sg == <<a.bs, a.rcout * a.groups, a.oy, a.ox>>
      sk == <<a.bs, a.oy, a.ox>>
      elem(k) ==
        LET o == Unravel(k, sw)
            g == o[1] \div a.rcout
        IN FmaSeq(Num(0),
             [t \in 1..prod(sk) |->
                LET i == Unravel(t - 1, sk)
                IN <<XD[Ravel(<<i[1], g * a.cin + o[2], i[2] * a.ys + o[3],
                                i[3] * a.xs + o[4]>>, sx) + 1],
                     GD[Ravel(<<i[1], o[1], i[2], i[3]>>, sg) + 1]>>])
  IN Dispatch(m, "convdw", a, <<x, grad_output>>, ret,
                  [k \in 1..prod(sw) |-> elem(k - 1)])

(* llops.opencl.convdx: dx[b, g*cin+ci, IY, IX] =                          *)
(*   sum over c, y, x with IY = Y*ys+y, IX = X*xs+x of                     *)
(*   grad[b, g*rcout+c, Y, X] * w[g*rcout+c, ci, y, x]                     *)
convdx(m, w, grad_output, ret, a) ==
  LET WD == Data(m, w)
      GD == Data(m, grad_output)
      sx == <<a.bs, a.cin * a.groups, a.iy, a.ix>>
      sw == <<a.rcout * a.groups, a.cin, a.H, a.W>>
      sg == <<a.bs, a.rcout * a.groups, a.oy, a.ox>>
      sk == <<a.rcout, a.H, a.W>>
      elem(k) ==
        LET o == Unravel(k, sx)
            g == o[2] \div a.cin
            ci == o[2] % a.cin
        IN FmaSeq(Num(0),
             [t \in 1..prod(sk) |->
                LET i == Unravel(t - 1, sk)
                    co == g * a.rcout + i[1]
                    dy == o[3] - i[2]
                    dx == o[4] - i[3]
                IN IF /\ dy >= 0 /\ dy % a.ys = 0 /\ dy \div a.ys < a.oy
                      /\ dx >= 0 /\ dx % a.xs = 0 /\ dx \div a.xs < a.ox
                   THEN <<GD[Ravel(<<o[1], co, dy \div a.ys, dx \div a.xs>>, sg) + 1],
                          WD[Ravel(<<co, ci, i[2], i[3]>>, sw) + 1]>>
                   ELSE <<>>])
  IN Dispatch(m, "convdx", a, <<w, grad_output>>, ret,
                  [k \in 1..prod(sx) |-> elem(k - 1)])

(* a stride is <<s>> for the integer s and <<ys, xs>> for a pair *)
isinstance_int(stride) == Len(stride) = 1

(* the output size without the window that starts at 0 *)
ConvOut_no_first_window(i, k, s) == FloorDiv(i - k, s)

(* (i - (k - s)) // s: the output size for input size i, kernel k, stride s *)
ConvOut(i, k, s) == FloorDiv(i - (k - s), s)

(* Conv2D.forward with save_for_backward moved above the channel check *)
Conv2D_forward_saves_first(m, c, x, w) ==
  LET c0 == IF isinstance_int(c.stride)
            THEN [c EXCEPT !.stride = <<c.stride[1], c.stride[1]>>] ELSE c
      cout == Shape(m, w)[1]
      cin == Shape(m, w)[2]
      H == Shape(m, w)[3]
      W == Shape(m, w)[4]
      ys == c0.stride[1]
      xs == c0.stride[2]
      bs == Shape(m, x)[1]
      cin_ == Shape(m, x)[2]
      iy == Shape(m, x)[3]
      ix == Shape(m, x)[4]
      oy == FloorDiv(iy - (H - ys), ys)
      ox == FloorDiv(ix - (W - xs), xs)
      rcout == cout \div c0.groups
      c1 == save_for_backward(c0, <<x, w>>)
      conv_args == ConvArgs(H, W, c0.groups, rcout, cin, oy, ox, iy, ix, ys, xs, bs)
      m1 == Buffer(m, <<bs, cout, oy, ox>>)
  IN IF Len(Shape(m, w)) # 4 \/ Len(Shape(m, x)) # 4 THEN Raised(m, c0, "ValueError")
     ELSE IF cin * c0.groups # cin_ THEN Raised(m, c1, "Exception")
     ELSE IF cout % c0.groups # 0 THEN Raised(m, c1, "AssertionError")
     ELSE Returned(conv(m1, x, w, Last(m1), conv_args), c1, <<Last(m1)>>)

Conv2D_forward(m, c, x, w) ==
  LET c0 == IF isinstance_int(c.stride)
            THEN [c EXCEPT !.stride = <<c.stride[1], c.stride[1]>>] ELSE c
      cout == Shape(m, w)[1]
      cin == Shape(m, w)[2]
      H == Shape(m, w)[3]
      W == Shape(m, w)[4]
      ys == c0.stride[1]
      xs == c0.stride[2]
      bs == Shape(m, x)[1]
      cin_ == Shape(m, x)[2]
      iy == Shape(m, x)[3]
      ix == Shape(m, x)[4]
      oy == ConvOut(iy, H, ys)
      ox == ConvOut(ix, W, xs)
      rcout == cout \div c0.groups
      c1 == save_for_backward(c0, <<x, w>>)
      conv_args == ConvArgs(H, W, c0.groups, rcout, cin, oy, ox, iy, ix, ys, xs, bs)
      m1 == Buffer(m, <<bs, cout, oy, ox>>)
  IN IF Len(Shape(m, w)) # 4 \/ Len(Shape(m, x)) # 4 THEN Raised(m, c0, "ValueError")
     ELSE IF cin * c0.groups # cin_ THEN Raised(m, c0, "Exception")
     ELSE IF cout % c0.groups # 0 THEN Raised(m, c0, "AssertionError")
     ELSE Returned(conv(m1, x, w, Last(m1), conv_args), c1, <<Last(m1)>>)

Conv2D_backward(m, c, grad_output) ==
  LET x == c.saved_tensors[1]
      w == c.saved_tensors[2]
      cout == Shape(m, w)[1]
      cin == Shape(m, w)[2]
      H == Shape(m, w)[3]
      W == Shape(m, w)[4]
      ys == c.stride[1]
      xs == c.stride[2]
      bs == Shape(m, x)[1]
      cin_ == Shape(m, x)[2]
      iy == Shape(m, x)[3]
      ix == Shape(m, x)[4]
      oy == ConvOut(iy, H, ys)
      ox == ConvOut(ix, W, xs)
      rcout == cout \div c.groups
      conv_args == ConvArgs(H, W, c.groups, rcout, cin, oy, ox, iy, ix, ys, xs, bs)
      n1 == Buffer(m, <<bs, cin_, iy, ix>>)
      m1 == IF c.needs_input_grad[1]
            THEN ForGrad(m, convdx(n1, w, grad_output, Last(n1), conv_args), 1)
            ELSE m
      dx == IF c.needs_input_grad[1] THEN Last(m1) ELSE None
      n2 == Buffer(m1, <<cout, cin, H, W>>)
      m2 == IF c.needs_input_grad[2]
            THEN ForGrad(m1, convdw(n2, x, grad_output, Last(n2), conv_args), 2)
            ELSE m1
      dw == IF c.needs_input_grad[2] THEN Last(m2) ELSE None
  IN IF cin * c.groups # cin_ \/ cout % c.groups # 0 THEN Raised(m, c, "AssertionError")
     ELSE Returned(m2, c, <<dx, dw>>)

(* ------------------------------ calls ------------------------------- *)
(* One use of one operator: the caller builds the input tensors and      *)
(* calls forward on a new context, then builds a grad_output of the      *)
(* shape of the result and calls backward.  (Sequences of calls on one   *)
(* heap follow below.)                                                   *)
MaxElems == 6
MaxVal == 1
MaxTarget == 6
MaxPad == 1
MaxChan == 2
MaxKernel == 2
MaxIn == 3
MaxStride == 2

(* the shapes of at most MaxElems elements *)
SmallShapes(rank) ==
  {s \in UNION {ShapesOfRank(n, 1..MaxDim) : n \in 1..rank} : prod(s) <= MaxElems}

BinShapes == SmallShapes(MaxRank)
Flags == {<<a, b>> : a \in BOOLEAN, b \in BOOLEAN}
NoFlags == <<TRUE, FALSE>>

UnaryOps == {"ReLU", "Log", "Exp"}
BinaryOps == {"Add", "Sub", "Mul", "Pow"}

(* a tensor of numbers *)
TensorOf(m, shape, data) ==
  [m EXCEPT !.bufs = Append(@, [shape |-> shape, cl |-> Len(m.mem) + 1]),
            !.mem = Append(@, data)]

(* the caller's tensors x and y; with same, y is the tensor x itself *)
TwoTensors(sx, sy, same) ==
  IF same THEN Tensor(EmptyMachine, sx, "x")
  ELSE Tensor(Tensor(EmptyMachine, sx, "x"), sy, "y")

TwoInputOps == BinaryOps \cup {"Matmul", "Conv2D"}

Machine == [bufs |-> bufs, mem |-> mem, log |-> <<>>]

(* the buffers a context holds after save_for_backward *)
SavedBuffers(c) ==
  IF Len(c.saved_tensors) = 0 THEN {}
  ELSE CASE c.op \in UnaryOps -> {c.saved_tensors[1]}
         [] c.op = "Max" -> {c.saved_tensors[1], c.saved_tensors[3]}
         [] c.op \in {"Mul", "Pow", "Matmul", "Conv2D"} ->
              {c.saved_tensors[1], c.saved_tensors[2]}
         [] OTHER -> {}

(* what is remembered of a call: its arguments and their contents when    *)
(* it was made on machine m, and its result r                             *)
CallRecord(r, dir, x, y, g, m) ==
  [op |-> r.ctx.op, dir |-> dir, ctx |-> r.ctx, x |-> x, y |-> y, g |-> g,
   out |-> r.ret, err |-> r.err, log |-> r.m.log,
   nbufs |-> Len(m.bufs), nmem |-> Len(m.mem),
   nbufs1 |-> Len(r.m.bufs), nmem1 |-> Len(r.m.mem),
   passed |-> [b \in ({x, y, g} \ {0}) |-> Data(m, b)],
   saved |-> [b \in SavedBuffers(r.ctx) |-> Data(r.m, b)]]

Return(r, next, x, y, g, m, args) ==
  /\ history' = Append(history, CallRecord(r, next, x, y, g, m))
  /\ bufs' = r.m.bufs
  /\ mem' = r.m.mem
  /\ log' = r.m.log
  /\ ctx' = r.ctx
  /\ out' = r.ret
  /\ err' = r.err
  /\ pc' = IF r.err = "" THEN next ELSE "raised"
  /\ call' = [x |-> x, y |-> y, g |-> g, args |-> args,
               ret |-> IF g = 0 THEN (IF r.err = "" THEN r.ret[1] ELSE 0) ELSE call.ret,
               nbufs |-> Len(m.bufs), nmem |-> Len(m.mem)]

(* the gradient the caller passes to backward: a new tensor of the shape  *)
(* of the forward result, or (alias) the forward result itself            *)
GradOutput(alias) ==
  IF alias THEN Machine ELSE Tensor(Machine, bufs[out[1]].shape, "g")

ReturnBackward(r, m, g) == Return(r, "backward", call.x, call.y, g, m, call.args)

UnaryForwardCall(op) ==
  /\ pc = "init"
  /\ \E s \in BinShapes :
       LET m == Tensor(EmptyMachine, s, "x")
       IN Return(UnaryOp_forward(m, NewCtx(op, NoFlags), 1), "forward", 1, 0, 0, m, <<>>)

UnaryBackwardCall(op) ==
  /\ pc = "forward"
  /\ ctx.op = op
  /\ \E alias \in BOOLEAN :
       LET m == GradOutput(alias)
           g == IF alias THEN out[1] ELSE Last(m)
       IN ReturnBackward(UnaryOp_backward(m, ctx, g), m, g)

SumForwardCall ==
  /\ pc = "init"
  /\ \E s \in BinShapes : \E axis \in SUBSET (0..(Len(s) - 1)) :
       LET m == Tensor(EmptyMachine, s, "x")
       IN Return(Sum_forward(m, [NewCtx("Sum", NoFlags) EXCEPT !.axis = axis], 1),
                 "forward", 1, 0, 0, m, <<>>)

SumBackwardCall ==
  /\ pc = "forward"
  /\ ctx.op = "Sum"
  /\ \E alias \in BOOLEAN :
       LET m == GradOutput(alias)
           g == IF alias THEN out[1] ELSE Last(m)
       IN ReturnBackward(Sum_backward(m, ctx, g), m, g)

MaxShapes == BinShapes

MaxForwardCall ==
  /\ pc = "init"
  /\ \E s \in MaxShapes : \E axis \in SUBSET (0..(Len(s) - 1)) :
       \E v \in [1..prod(s) -> 0..MaxVal] :
         LET m == TensorOf(EmptyMachine, s, [k \in 1..prod(s) |-> Num(v[k])])
         IN Return(Max_forward(m, [NewCtx("Max", NoFlags) EXCEPT !.axis = axis], 1),
                   "forward", 1, 0, 0, m, <<>>)

MaxBackwardCall ==
  /\ pc = "forward"
  /\ ctx.op = "Max"
  /\ \E c \in 0..MaxVal :
       LET s == bufs[out[1]].shape
           m == TensorOf(Machine, s, [k \in 1..prod(s) |-> Num(c + k - 1)])
       IN ReturnBackward(Max_backward(m, ctx, Last(m)), m, Last(m))

ForwardOf(op, m, c, x, y) ==
  CASE op = "Add" -> Add_forward(m, c, x, y)
    [] op = "Sub" -> Sub_forward(m, c, x, y)
    [] op = "Mul" -> Mul_forward(m, c, x, y)
    [] op = "Pow" -> Pow_forward(m, c, x, y)

BackwardOf(op, m, c, g) ==
  CASE op = "Add" -> Add_backward(m, c, g)
    [] op = "Sub" -> Sub_backward(m, c, g)
    [] op = "Mul" -> Mul_backward(m, c, g)
    [] op = "Pow" -> Pow_backward(m, c, g)

TwoInputBackward(op, m, c, g) ==
  CASE op \in BinaryOps -> BackwardOf(op, m, c, g)
    [] op = "Matmul" -> Matmul_backward(m, c, g)
    [] op = "Conv2D" -> Conv2D_backward(m, c, g)

BinaryForwardCall(op) ==
  /\ pc = "init"
  /\ \E sx \in BinShapes, sy \in BinShapes, same \in BOOLEAN, nig \in Flags :
       /\ same => sx = sy
       /\ LET m == TwoTensors(sx, sy, same)
              y == IF same THEN 1 ELSE 2
          IN Return(ForwardOf(op, m, NewCtx(op, nig), 1, y), "forward", 1, y, 0, m, <<>>)

BinaryBackwardCall(op) ==
  /\ pc = "forward"
  /\ ctx.op = op
  /\ \E alias \in BOOLEAN :
       LET m == GradOutput(alias)
           g == IF alias THEN out[1] ELSE Last(m)
       IN ReturnBackward(BackwardOf(op, m, ctx, g), m, g)

TargetShapes == UNION {ShapesOfRank(n, (-1)..MaxTarget) : n \in 1..MaxRank}

ReshapeForwardCall ==
  /\ pc = "init"
  /\ \E s \in BinShapes, shape \in TargetShapes :
       LET m == Tensor(EmptyMachine, s, "x")
       IN Return(Reshape_forward(m, NewCtx("Reshape", NoFlags), 1, shape),
                 "forward", 1, 0, 0, m, shape)

ReshapeBackwardCall ==
  /\ pc = "forward"
  /\ ctx.op = "Reshape"
  /\ \E alias \in BOOLEAN :
       LET m == GradOutput(alias)
           g == IF alias THEN out[1] ELSE Last(m)
       IN ReturnBackward(Reshape_backward(m, ctx, g), m, g)

Perms(n) == {o \in [1..n -> 0..(n - 1)] : \A i, j \in 1..n : o[i] = o[j] => i = j}
TransposeShapes == SmallShapes(MaxRank + 1)

TransposeForwardCall ==
  /\ pc = "init"
  /\ \E s \in TransposeShapes : \E order \in Perms(Len(s)) :
       LET m == Tensor(EmptyMachine, s, "x")
       IN Return(Transpose_forward(m, [NewCtx("Transpose", NoFlags) EXCEPT !.order = order], 1),
                 "forward", 1, 0, 0, m, <<>>)

TransposeBackwardCall ==
  /\ pc = "forward"
  /\ ctx.op = "Transpose"
  /\ \E alias \in BOOLEAN :
       LET m == GradOutput(alias)
           g == IF alias THEN out[1] ELSE Last(m)
       IN ReturnBackward(Transpose_backward(m, ctx, g), m, g)

(* the ranges (start, end) over an axis of size n, up to MaxPad outside it *)
Ranges(n) == {<<a, b>> : a \in (-MaxPad)..n, b \in (-MaxPad + 1)..(n + MaxPad)} \cap
             {r \in ((-MaxPad)..n) \X ((-MaxPad + 1)..(n + MaxPad)) : r[1] < r[2]}

RECURSIVE SliceArgs(_)
SliceArgs(s) ==
  IF Len(s) = 0 THEN {<<>>}
  ELSE {<<r>> \o a : r \in Ranges(s[1]), a \in SliceArgs(Tail(s))}

SliceForwardCall ==
  /\ pc = "init"
  /\ \E s \in BinShapes : \E arg \in SliceArgs(s) :
       LET m == Tensor(EmptyMachine, s, "x")
       IN Return(Slice_forward(m, [NewCtx("Slice", NoFlags) EXCEPT !.arg = arg], 1),
                 "forward", 1, 0, 0, m, <<>>)

SliceBackwardCall ==
  /\ pc = "forward"
  /\ ctx.op = "Slice"
  /\ \E alias \in BOOLEAN :
       LET m == GradOutput(alias)
           g == IF alias THEN out[1] ELSE Last(m)
       IN ReturnBackward(Slice_backward(m, ctx, g), m, g)

Batches == {<<>>} \cup {<<b>> : b \in 1..MaxDim}

MatmulForwardCall ==
  /\ pc = "init"
  /\ \E bt \in Batches, M \in 1..MaxDim, K \in 1..MaxDim, K2 \in 1..MaxDim,
        N \in 1..MaxDim, nig \in Flags :
       LET m == Tensor(Tensor(EmptyMachine, bt \o <<M, K>>, "x"), bt \o <<K2, N>>, "y")
       IN Return(Matmul_forward(m, NewCtx("Matmul", nig), 1, 2), "forward", 1, 2, 0, m, <<>>)

MatmulBackwardCall ==
  /\ pc = "forward"
  /\ ctx.op = "Matmul"
  /\ \E alias \in BOOLEAN :
       LET m == GradOutput(alias)
           g == IF alias THEN out[1] ELSE Last(m)
       IN ReturnBackward(Matmul_backward(m, ctx, g), m, g)

Strides == {<<s>> : s \in 1..MaxStride} \cup ((1..MaxStride) \X (1..MaxStride))

Conv2DForwardCall ==
  /\ pc = "init"
  /\ \E cout \in 1..MaxChan, cin \in 1..MaxChan, groups \in 1..MaxChan,
        cin_ \in 1..MaxChan, H \in 1..MaxKernel, W \in 1..MaxKernel,
        stride \in Strides, nig \in Flags :
       \E iy \in H..MaxIn, ix \in W..MaxIn :
         LET m == Tensor(Tensor(EmptyMachine, <<1, cin_, iy, ix>>, "x"),
                         <<cout, cin, H, W>>, "y")
             c == [NewCtx("Conv2D", nig) EXCEPT !.stride = stride, !.groups = groups]
         IN Return(Conv2D_forward(m, c, 1, 2), "forward", 1, 2, 0, m, stride)

Conv2DBackwardCall ==
  /\ pc = "forward"
  /\ ctx.op = "Conv2D"
  /\ \E alias \in BOOLEAN :
       LET m == GradOutput(alias)
           g == IF alias THEN out[1] ELSE Last(m)
       IN ReturnBackward(Conv2D_backward(m, ctx, g), m, g)

Init ==
  /\ bufs = <<>>
  /\ mem = <<>>
  /\ log = <<>>
  /\ ctx = NewCtx("", NoFlags)
  /\ pc = "init"
  /\ out = <<>>
  /\ err = ""
  /\ call = [x |-> 0, y |-> 0, g |-> 0, args |-> <<>>, ret |-> 0, nbufs |-> 0, nmem |-> 0]
  /\ history = <<>>

UnaryNext ==
  \/ \E op \in UnaryOps : UnaryForwardCall(op)
  \/ \E op \in UnaryOps : UnaryBackwardCall(op)

ReduceNext ==
  \/ SumForwardCall
  \/ SumBackwardCall
  \/ MaxForwardCall
  \/ MaxBackwardCall

BinaryNext ==
  \/ \E op \in BinaryOps : BinaryForwardCall(op)
  \/ \E op \in BinaryOps : BinaryBackwardCall(op)

ReshapeNext ==
  \/ ReshapeForwardCall
  \/ ReshapeBackwardCall

TransposeNext ==
  \/ TransposeForwardCall
  \/ TransposeBackwardCall

SliceNext ==
  \/ SliceForwardCall
  \/ SliceBackwardCall

MatmulNext ==
  \/ MatmulForwardCall
  \/ MatmulBackwardCall

Conv2DNext ==
  \/ Conv2DForwardCall
  \/ Conv2DBackwardCall

Next ==
  \/ UnaryNext
  \/ ReduceNext
  \/ BinaryNext
  \/ ReshapeNext
  \/ TransposeNext
  \/ SliceNext
  \/ MatmulNext
  \/ Conv2DNext

(* every operator of the module *)
Spec == Init /\ [][Next]_vars

(* one family of operators at a time *)
SpecReduce == Init /\ [][ReduceNext]_vars
SpecBinary == Init /\ [][BinaryNext]_vars
SpecReshape == Init /\ [][ReshapeNext]_vars
SpecTranspose == Init /\ [][TransposeNext]_vars
SpecSlice == Init /\ [][SliceNext]_vars
SpecMatmul == Init /\ [][MatmulNext]_vars
SpecConv2D == Init /\ [][Conv2DNext]_vars
(* the operators with two inputs *)
SpecTwoInputs == Init /\ [][BinaryNext \/ MatmulNext \/ Conv2DNext]_vars

(* ------------------------- sequences of calls ----------------------- *)
(* The caller (tensor.py) holds two tensors and makes up to MaxCalls      *)
(* calls on one heap.  A forward call takes any of the caller's tensors   *)
(* or buffers returned by earlier calls; a backward call takes the        *)
(* context of any earlier forward call that returned, any number of       *)
(* times, with a returned buffer of the right shape or a new tensor as    *)
(* grad_output.  A call that raised is followed by further calls.         *)
MaxCalls == 3
MaxSide == 2

AllOps == UnaryOps \cup {"Sum", "Max", "Reshape", "Transpose", "Slice"} \cup TwoInputOps

Forward(op, m, c, x, y, shape) ==
  CASE op \in UnaryOps -> UnaryOp_forward(m, c, x)
    [] op = "Sum" -> Sum_forward(m, c, x)
    [] op = "Max" -> Max_forward(m, c, x)
    [] op \in BinaryOps -> ForwardOf(op, m, c, x, y)
    [] op = "Reshape" -> Reshape_forward(m, c, x, shape)
    [] op = "Transpose" -> Transpose_forward(m, c, x)
    [] op = "Slice" -> Slice_forward(m, c, x)
    [] op = "Matmul" -> Matmul_forward(m, c, x, y)
    [] op = "Conv2D" -> Conv2D_forward(m, c, x, y)

Backward(op, m, c, g) ==
  CASE op \in UnaryOps -> UnaryOp_backward(m, c, g)
    [] op = "Sum" -> Sum_backward(m, c, g)
    [] op = "Max" -> Max_backward(m, c, g)
    [] op = "Reshape" -> Reshape_backward(m, c, g)
    [] op = "Transpose" -> Transpose_backward(m, c, g)
    [] op = "Slice" -> Slice_backward(m, c, g)
    [] op \in TwoInputOps -> TwoInputBackward(op, m, c, g)

(* the caller's tensors and the buffers returned by the calls so far *)
Operands ==
  ({1, 2} \cup UNION {{history[i].out[k] : k \in 1..Len(history[i].out)} :
                     i \in 1..Len(history)}) \ {None}

(* the first of the caller's tensors requires a gradient, and so does the *)
(* result of a forward call one of whose inputs does                      *)
RequiresGrad(b) ==
  \/ b = 1
  \/ \E i \in 1..Len(history) :
       /\ history[i].dir = "forward"
       /\ history[i].err = ""
       /\ history[i].out[1] = b
       /\ (history[i].ctx.needs_input_grad[1] \/ history[i].ctx.needs_input_grad[2])

(* the arguments the caller draws from: one axis or all of them, ...      *)
ChainAxes(n) == {{d} : d \in 0..(n - 1)} \cup {0..(n - 1)}

(* ... the flat shape, the shape with batch and channel axes in front     *)
(* and a shape of another size, ...                                       *)
ChainTargets(s) == {<<-1>>, <<1, 1>> \o s, <<prod(s) + 1>>}

(* ... the reversal and the rotation of the axes, ...                     *)
ChainOrders(n) ==
  {[d \in 1..n |-> n - d], [d \in 1..n |-> d % n]}

(* ... a range that starts before the input and one that ends after it    *)
ChainSlices(s) ==
  {[d \in 1..Len(s) |-> <<-1, s[d]>>], [d \in 1..Len(s) |-> <<1, s[d] + 1>>]}

ChainStrides == {<<1>>, <<MaxStride, 1>>}

(* the contexts and shape arguments of a forward call of op on x and y *)
Contexts(op, x, y) ==
  LET c == NewCtx(op, <<RequiresGrad(x), y # 0 /\ RequiresGrad(y)>>)
      sx == bufs[x].shape
      plain(cs) == {[ctx |-> cc, shape |-> <<>>] : cc \in cs}
  IN CASE op \in UnaryOps \cup BinaryOps -> plain({c})
       [] op \in {"Sum", "Max"} ->
            plain({[c EXCEPT !.axis = axis] : axis \in ChainAxes(Len(sx))})
       [] op = "Reshape" -> {[ctx |-> c, shape |-> t] : t \in ChainTargets(sx)}
       [] op = "Transpose" ->
            plain({[c EXCEPT !.order = order] : order \in ChainOrders(Len(sx))})
       [] op = "Slice" -> plain({[c EXCEPT !.arg = arg] : arg \in ChainSlices(sx)})
       [] op = "Matmul" -> plain({c})
       [] op = "Conv2D" ->
            plain({[c EXCEPT !.stride = stride, !.groups = groups] :
                     stride \in ChainStrides, groups \in 1..MaxChan})

ChainForwardCall(op) ==
  /\ Len(history) < MaxCalls
  /\ \E x \in Operands :
       \E y \in (IF op \in TwoInputOps THEN Operands ELSE {0}) :
         \E a \in Contexts(op, x, y) :
           Return(Forward(op, Machine, a.ctx, x, y, a.shape),
                  "forward", x, y, 0, Machine, a.shape)

ChainBackwardCall(op) ==
  /\ Len(history) < MaxCalls
  /\ \E i \in 1..Len(history) :
       /\ history[i].dir = "forward"
       /\ history[i].err = ""
       /\ history[i].op = op
       /\ LET shape == bufs[history[i].out[1]].shape
          IN \E g \in {0} \cup {b \in Operands : bufs[b].shape = shape} :
               LET m == IF g = 0 THEN Tensor(Machine, shape, "g") ELSE Machine
                   grad_output == IF g = 0 THEN Last(m) ELSE g
               IN Return(Backward(op, m, history[i].ctx, grad_output),
                         "backward", history[i].x, history[i].y, grad_output, m, <<>>)

InitChain ==
  LET m == Tensor(Tensor(EmptyMachine, <<MaxSide, 1>>, "x"), <<1, MaxSide>>, "y")
  IN /\ bufs = m.bufs
     /\ mem = m.mem
     /\ log = <<>>
     /\ ctx = NewCtx("", NoFlags)
     /\ pc = "init"
     /\ out = <<>>
     /\ err = ""
     /\ call = [x |-> 0, y |-> 0, g |-> 0, args |-> <<>>, ret |-> 0, nbufs |-> 0, nmem |-> 0]
     /\ history = <<>>

ChainNext ==
  \/ \E op \in AllOps : ChainForwardCall(op)
  \/ \E op \in AllOps : ChainBackwardCall(op)

(* any sequence of calls of the operators on one heap *)
SpecChain == InitChain /\ [][ChainNext]_vars

(* ------------------------------ properties -------------------------- *)
Forwarded(op) == pc = "forward" /\ ctx.op = op
Backwarded(op) == pc = "backward" /\ ctx.op = op
InputOf(i) == IF i = 1 THEN call.x ELSE call.y
LogOf(i) == {e \in 1..Len(log) : log[e].grad = i}

(* C1: Add, Sub, Mul and Pow return from forward a buffer of the shape     *)
(* binary_broadcast(x.shape, y.shape); from backward on a grad_output of   *)
(* that shape they return, for each input whose gradient is needed, a      *)
(* buffer of exactly that input's shape, written by the sum reduction      *)
(* ("out += a") of unbroadcast.                                            *)
C1_BroadcastShapes ==
  ctx.op \in BinaryOps =>
    /\ pc = "forward" =>
         bufs[out[1]].shape = binary_broadcast(bufs[call.x].shape, bufs[call.y].shape)
    /\ pc = "backward" =>
         /\ bufs[call.g].shape = binary_broadcast(bufs[call.x].shape, bufs[call.y].shape)
         /\ \A i \in 1..2 :
              ctx.needs_input_grad[i] =>
                /\ out[i] # None
                /\ bufs[out[i]].shape = bufs[InputOf(i)].shape
                /\ \E e \in LogOf(i) :
                     /\ log[e].prim = "reduce_op"
                     /\ log[e].code = "out += a"
                     /\ log[e].out = out[i]

C1_Witness ==
  /\ Backwarded("Pow")
  /\ ctx.needs_input_grad = <<TRUE, TRUE>>
  /\ bufs[call.x].shape = <<1, 2>>
  /\ bufs[call.y].shape = <<2, 1>>
  /\ bufs[call.g].shape = <<2, 2>>
  /\ bufs[out[1]].shape = <<1, 2>>
  /\ bufs[out[2]].shape = <<2, 1>>

(* C2: Conv2D.forward raises when cin * groups differs from the input's    *)
(* channel count, with nothing saved in the context, no primitive          *)
(* dispatched and no buffer allocated; when they agree that exception is  *)
(* not raised.                                                             *)
C2_ChannelMismatchRaisesFirst ==
  (ctx.op = "Conv2D" /\ pc \in {"forward", "raised"}) =>
    LET cin == bufs[call.y].shape[2]
        cin_ == bufs[call.x].shape[2]
    IN /\ cin * ctx.groups # cin_ =>
            /\ pc = "raised"
            /\ err = "Exception"
            /\ ctx.saved_tensors = <<>>
            /\ log = <<>>
            /\ Len(bufs) = call.nbufs
            /\ Len(mem) = call.nmem
       /\ cin * ctx.groups = cin_ => err # "Exception"

C2_Witness ==
  /\ ctx.op = "Conv2D"
  /\ pc = "raised"
  /\ err = "Exception"
  /\ ctx.groups = 2
  /\ bufs[call.y].shape[2] = 1
  /\ bufs[call.x].shape[2] = 1

(* the number of positions p >= 0 at which a window of size k placed at    *)
(* p*s lies inside an axis of size i                                       *)
Windows(i, k, s) == Cardinality({p \in 0..i : p * s + k <= i})

(* C3: Conv2D.forward turns an integer stride s into (s, s) and returns a  *)
(* buffer of shape (bs, cout, oy, ox) with oy and ox the numbers of valid  *)
(* window positions, (iy-H) div ys + 1 and (ix-W) div xs + 1;              *)
(* Conv2D.backward recomputes the same oy and ox, which are the spatial    *)
(* sizes of grad_output, and returns dx of x's shape and dw of w's shape.  *)
C3_ConvShapes ==
  (ctx.op = "Conv2D" /\ pc \in {"forward", "backward"}) =>
    LET sx == bufs[call.x].shape
        sw == bufs[call.y].shape
        ys == ctx.stride[1]
        xs == ctx.stride[2]
        oy == ((sx[3] - sw[3]) \div ys) + 1
        ox == ((sx[4] - sw[4]) \div xs) + 1
    IN /\ Len(ctx.stride) = 2
       /\ Len(call.args) = 1 => ctx.stride = <<call.args[1], call.args[1]>>
       /\ Len(call.args) = 2 => ctx.stride = call.args
       /\ oy = Windows(sx[3], sw[3], ys)
       /\ ox = Windows(sx[4], sw[4], xs)
       /\ bufs[call.ret].shape = <<sx[1], sw[1], oy, ox>>
       /\ pc = "backward" =>
            /\ \A e \in 1..Len(log) :
                 /\ log[e].code.oy = bufs[call.g].shape[3]
                 /\ log[e].code.ox = bufs[call.g].shape[4]
                 /\ log[e].code.bs = bufs[call.g].shape[1]
            /\ ctx.needs_input_grad[1] => bufs[out[1]].shape = sx
            /\ ctx.needs_input_grad[2] => bufs[out[2]].shape = sw

C3_Witness ==
  /\ Backwarded("Conv2D")
  /\ call.args = <<2>>
  /\ ctx.stride = <<2, 2>>
  /\ bufs[call.x].shape = <<1, 2, 3, 3>>
  /\ bufs[call.y].shape = <<2, 1, 2, 1>>
  /\ bufs[call.ret].shape = <<1, 2, 1, 2>>
  /\ ctx.needs_input_grad = <<TRUE, TRUE>>
  /\ Len(log) = 2

Count(s, v) == Cardinality({i \in 1..Len(s) : s[i] = v})

RECURSIVE ProdExcept(_, _)
ProdExcept(s, v) ==
  IF Len(s) = 0 THEN 1
  ELSE (IF s[1] = v THEN 1 ELSE s[1]) * ProdExcept(Tail(s), v)

(* C4: Reshape.forward returns only buffers with as many elements as x;    *)
(* a target with exactly one -1 whose other entries have a product P that  *)
(* divides the element count N gets the -1 replaced by N / P and is        *)
(* returned; a target that cannot match (no -1 and another product, or a   *)
(* -1 with P not dividing N) fails the assertion and nothing is returned.  *)
C4_ReshapeKeepsSize ==
  (ctx.op = "Reshape" /\ pc \in {"forward", "raised"}) =>
    LET N == prod(bufs[call.x].shape)
        shape == call.args
        P == ProdExcept(shape, -1)
        divides == P > 0 /\ N % P = 0
    IN /\ pc = "forward" => prod(bufs[out[1]].shape) = N
       /\ (Count(shape, -1) = 1 /\ divides) =>
            /\ pc = "forward"
            /\ bufs[out[1]].shape =
                 [i \in 1..Len(shape) |-> IF shape[i] = -1 THEN N \div P ELSE shape[i]]
       /\ (\/ Count(shape, -1) = 0 /\ prod(shape) # N
           \/ Count(shape, -1) = 1 /\ ~divides) =>
            /\ pc = "raised"
            /\ err = "AssertionError"
            /\ out = <<>>

C4_Witness ==
  /\ Forwarded("Reshape")
  /\ bufs[call.x].shape = <<2, 3>>
  /\ call.args = <<-1, 2>>
  /\ bufs[out[1]].shape = <<3, 2>>

(* C5: Matmul.forward fails its assertion, saving nothing and dispatching  *)
(* nothing, when input.shape[-1] differs from weight.shape[-2]; otherwise  *)
(* the result has shape input.shape[:-1] + [weight.shape[-1]], and         *)
(* backward returns grad_input of input's shape as grad_output times the   *)
(* transposed weight and grad_weight of weight's shape as the transposed   *)
(* input times grad_output, the inner dimensions of both products equal.   *)
C5_MatmulShapes ==
  ctx.op = "Matmul" =>
    LET si == bufs[call.x].shape
        sw == bufs[call.y].shape
        n == Len(si)
    IN /\ pc \in {"forward", "raised"} =>
            /\ si[n] # sw[n - 1] =>
                 /\ pc = "raised"
                 /\ err = "AssertionError"
                 /\ ctx.saved_tensors = <<>>
                 /\ log = <<>>
                 /\ Len(bufs) = call.nbufs
            /\ si[n] = sw[n - 1] =>
                 /\ pc = "forward"
                 /\ bufs[out[1]].shape = SubSeq(si, 1, n - 1) \o <<sw[n]>>
       /\ pc = "backward" =>
            LET sg == bufs[call.g].shape
            IN /\ ctx.needs_input_grad[1] =>
                    /\ bufs[out[1]].shape = si
                    /\ \E e \in LogOf(1) :
                         /\ log[e].prim = "matmul"
                         /\ log[e].ins = <<call.g, call.y>>
                         /\ log[e].code = <<FALSE, TRUE>>
                         /\ log[e].out = out[1]
                    /\ sg[n] = sw[n]
               /\ ctx.needs_input_grad[2] =>
                    /\ bufs[out[2]].shape = sw
                    /\ \E e \in LogOf(2) :
                         /\ log[e].prim = "matmul"
                         /\ log[e].ins = <<call.x, call.g>>
                         /\ log[e].code = <<TRUE, FALSE>>
                         /\ log[e].out = out[2]
                    /\ si[n - 1] = sg[n - 1]

C5_Witness ==
  /\ ctx.op = "Matmul"
  /\ pc = "raised"
  /\ err = "AssertionError"
  /\ bufs[call.x].shape = <<2, 2, 3>>
  /\ bufs[call.y].shape = <<2, 2, 1>>

(* C7: Transpose.forward returns a buffer of shape [x.shape[i] for i in    *)
(* order] holding x's elements permuted; Transpose.backward permutes by    *)
(* argsort(order), the inverse: its result has x's shape, the element at   *)
(* index j is grad_output's element at [j[order[d]]], and applied to the   *)
(* forward result it gives back x itself.                                  *)
C7_TransposeInverse ==
  (ctx.op = "Transpose" /\ pc \in {"forward", "backward"}) =>
    LET sx == bufs[call.x].shape
        order == ctx.order
        sr == bufs[call.ret].shape
        along(j) == [d \in 1..Len(order) |-> j[order[d] + 1]]
    IN /\ sr = [d \in 1..Len(order) |-> sx[order[d] + 1]]
       /\ \A k \in 0..(prod(sx) - 1) :
            mem[bufs[call.ret].cl][Ravel(along(Unravel(k, sx)), sr) + 1] = Sym("x", k)
       /\ pc = "backward" =>
            /\ bufs[out[1]].shape = sx
            /\ \A k \in 0..(prod(sx) - 1) :
                 mem[bufs[out[1]].cl][k + 1] =
                   mem[bufs[call.g].cl][Ravel(along(Unravel(k, sx)), sr) + 1]
            /\ call.g = call.ret => mem[bufs[out[1]].cl] = mem[bufs[call.x].cl]

C7_Witness ==
  /\ Backwarded("Transpose")
  /\ bufs[call.x].shape = <<1, 2, 3>>
  /\ ctx.order = <<1, 2, 0>>
  /\ call.g = call.ret
  /\ bufs[call.ret].shape = <<2, 3, 1>>
  /\ bufs[out[1]].shape = <<1, 2, 3>>
  /\ mem[bufs[out[1]].cl] = [k \in 1..6 |-> Sym("x", k - 1)]

(* C8: Slice.forward returns a buffer of shape [end - start];              *)
(* Slice.backward slices grad_output with                                  *)
(* narg = (-start, grad_output.shape + shape - end) into a buffer of the   *)
(* input's shape whose element at input index j is grad_output's element   *)
(* at j - start (0.0 where that lies outside grad_output); slicing the     *)
(* gradient with arg again gives grad_output at every index inside the     *)
(* input.                                                                  *)
C8_SliceGradient ==
  (ctx.op = "Slice" /\ pc \in {"forward", "backward"}) =>
    LET sx == bufs[call.x].shape
        arg == ctx.arg
        sr == bufs[call.ret].shape
    IN /\ sr = [i \in 1..Len(arg) |-> arg[i][2] - arg[i][1]]
       /\ pc = "backward" =>
            LET sg == bufs[call.g].shape
                G == mem[bufs[call.g].cl]
                narg == [i \in 1..Len(arg) |-> <<-arg[i][1], sg[i] + sx[i] - arg[i][2]>>]
                m1 == Buffer(Machine, sg)
                again == Data(inner_slice(m1, out[1], arg, Last(m1)), Last(m1))
            IN /\ Len(log) = 1
               /\ log[1].prim = "inner_slice"
               /\ log[1].ins = <<call.g>>
               /\ log[1].code = narg
               /\ bufs[out[1]].shape = sx
               /\ \A k \in 0..(prod(sx) - 1) :
                    LET i == [d \in 1..Len(sx) |-> Unravel(k, sx)[d] - arg[d][1]]
                    IN mem[bufs[out[1]].cl][k + 1] =
                         IF \A d \in 1..Len(sx) : i[d] >= 0 /\ i[d] < sg[d]
                         THEN G[Ravel(i, sg) + 1] ELSE Num(0)
               /\ \A k \in 0..(prod(sg) - 1) :
                    (\A d \in 1..Len(sg) :
                       /\ Unravel(k, sg)[d] + arg[d][1] >= 0
                       /\ Unravel(k, sg)[d] + arg[d][1] < sx[d])
                    => again[k + 1] = G[k + 1]

C8_Witness ==
  /\ Backwarded("Slice")
  /\ bufs[call.x].shape = <<2, 3>>
  /\ ctx.arg = <<<<-1, 2>>, <<1, 4>>>>
  /\ bufs[call.g].shape = <<3, 3>>
  /\ bufs[out[1]].shape = <<2, 3>>
  /\ mem[bufs[out[1]].cl][1][1] = "q"
  /\ mem[bufs[out[1]].cl][2] = mem[bufs[call.g].cl][4]

(* the elements of x reduced together with the element k *)
GroupOf(k) ==
  LET sx == bufs[call.x].shape
  IN {k2 \in 0..(prod(sx) - 1) :
        \A d \in 1..Len(sx) :
          (d - 1) \notin ctx.axis => Unravel(k2, sx)[d] = Unravel(k, sx)[d]}

ValueOf(k) == mem[bufs[call.x].cl][k + 1][2]

GroupMax(k) ==
  CHOOSE v \in {ValueOf(k2) : k2 \in GroupOf(k)} : \A k2 \in GroupOf(k) : ValueOf(k2) <= v

Ties(k) == Cardinality({k2 \in GroupOf(k) : ValueOf(k2) = GroupMax(k)})

(* index in the reduced buffer of the group of element k *)
GroupIndex(k) ==
  LET sx == bufs[call.x].shape
  IN Ravel([d \in 1..Len(sx) |-> IF (d - 1) \in ctx.axis THEN 0 ELSE Unravel(k, sx)[d]],
           bufs[call.ret].shape)

RECURSIVE SumNumerators(_, _)
SumNumerators(S, D) ==
  IF S = {} THEN 0
  ELSE LET k == CHOOSE k \in S : TRUE
       IN D[k + 1][2] + SumNumerators(S \ {k}, D)

(* C9: Max.forward returns a buffer of the input's shape with every        *)
(* reduced axis set to 1, holding the maximum of each reduction group;     *)
(* Max.backward returns a gradient of the input's shape that is zero       *)
(* wherever the input is not the maximum of its group and, where k         *)
(* elements tie for the maximum, gives each grad_output / (k + 1e-10), so  *)
(* that the numerators of a group sum to k times grad_output.              *)
C9_MaxGradient ==
  (ctx.op = "Max" /\ pc \in {"forward", "backward"}) =>
    LET sx == bufs[call.x].shape
        all == 0..(prod(sx) - 1)
    IN /\ bufs[call.ret].shape =
            [d \in 1..Len(sx) |-> IF (d - 1) \in ctx.axis THEN 1 ELSE sx[d]]
       /\ \A k \in all : mem[bufs[call.ret].cl][GroupIndex(k) + 1] = Num(GroupMax(k))
       /\ pc = "backward" =>
            LET G == mem[bufs[call.g].cl]
                D == mem[bufs[out[1]].cl]
            IN /\ bufs[out[1]].shape = sx
               /\ \A k \in all :
                    LET g == G[GroupIndex(k) + 1][2]
                    IN /\ D[k + 1] = IF ValueOf(k) = GroupMax(k) /\ g # 0
                                     THEN Q(g, 0, Ties(k), 1) ELSE Num(0)
                       /\ SumNumerators(GroupOf(k), D) = Ties(k) * g

C9_Witness ==
  /\ Backwarded("Max")
  /\ bufs[call.x].shape = <<2, 3>>
  /\ ctx.axis = {1}
  /\ Ties(0) = 2
  /\ Ties(3) = 3
  /\ ValueOf(0) < GroupMax(0)
  /\ mem[bufs[out[1]].cl][1] = Num(0)
  /\ mem[bufs[out[1]].cl][2] = Q(1, 0, 2, 1)
  /\ mem[bufs[out[1]].cl][4] = Q(2, 0, 3, 1)

(* the heap as backward found it, and backward run on it with both         *)
(* gradients requested                                                     *)
HeapAtCall ==
  [bufs |-> SubSeq(bufs, 1, call.nbufs), mem |-> SubSeq(mem, 1, call.nmem), log |-> <<>>]

BothRequested ==
  TwoInputBackward(ctx.op, HeapAtCall,
                   [ctx EXCEPT !.needs_input_grad = <<TRUE, TRUE>>], call.g)

(* C6: backward of Add, Sub, Mul, Pow, Matmul and Conv2D returns a pair    *)
(* whose i-th element is None exactly when needs_input_grad[i] is false;   *)
(* every primitive it dispatches belongs to the gradient of an input whose *)
(* flag is true; and a gradient has the value it has when both gradients   *)
(* are requested.                                                          *)
C6_OnlyNeededGradients ==
  (pc = "backward" /\ ctx.op \in TwoInputOps) =>
    /\ Len(out) = 2
    /\ \A e \in 1..Len(log) : log[e].grad \in {1, 2}
    /\ \A i \in 1..2 :
         /\ (out[i] = None) <=> ~ctx.needs_input_grad[i]
         /\ ~ctx.needs_input_grad[i] => LogOf(i) = {}
         /\ ctx.needs_input_grad[i] =>
              /\ LogOf(i) # {}
              /\ bufs[out[i]].shape = BothRequested.m.bufs[BothRequested.ret[i]].shape
              /\ mem[bufs[out[i]].cl] = Data(BothRequested.m, BothRequested.ret[i])

C6_Witness ==
  /\ Backwarded("Mul")
  /\ ctx.needs_input_grad = <<TRUE, FALSE>>
  /\ call.x # call.y
  /\ bufs[call.x].shape = <<2, 1>>
  /\ bufs[call.y].shape = <<1, 3>>
  /\ out[1] # None
  /\ out[2] = None
  /\ Len(log) = 2

(* the dispatches of call h that write the storage c *)
Writes(h, c) == {e \in 1..Len(h.log) : bufs[h.log[e].out].cl = c}

(* dispatch e of call h reads the storage it writes *)
InPlace(h, e) ==
  \E i \in 1..Len(h.log[e].ins) : bufs[h.log[e].ins[i]].cl = bufs[h.log[e].out].cl

(* what call h left on the heap, as the heap is now *)
CallFrame(h) ==
  /\ \A e \in 1..Len(h.log) :
       LET ret == h.log[e].out
       IN /\ ret \in (h.nbufs + 1)..h.nbufs1
          /\ bufs[ret].cl \in (h.nmem + 1)..h.nmem1
          /\ (InPlace(h, e) \/ Cardinality(Writes(h, bufs[ret].cl)) > 1) =>
               /\ h.dir = "backward"
               /\ h.op \in {"Mul", "Pow", "Max", "Sum"}
               /\ ret = h.nbufs + 1
  /\ \A b \in (h.nbufs + 1)..h.nbufs1 :
       bufs[b].cl <= h.nmem =>
         /\ h.op = "Reshape"
         /\ h.log = <<>>
         /\ bufs[b].cl = bufs[IF h.dir = "forward" THEN h.x ELSE h.g].cl
  /\ (h.op = "Reshape" /\ h.err = "") =>
       bufs[h.out[1]].cl = bufs[IF h.dir = "forward" THEN h.x ELSE h.g].cl
  /\ \A b \in DOMAIN h.passed : mem[bufs[b].cl] = h.passed[b]
  /\ \A b \in DOMAIN h.saved : mem[bufs[b].cl] = h.saved[b]
  /\ (h.dir = "backward" /\ h.op \in {"Mul", "Pow"}) =>
       LET tmp == h.nbufs + 1
           nig == h.ctx.needs_input_grad
           grad_x == h.out[1]
           grad_y == h.out[2]
       IN /\ nig[1] =>
               /\ bufs[grad_x].cl # bufs[tmp].cl
               /\ Cardinality(Writes(h, bufs[grad_x].cl)) = 1
               /\ \A e \in Writes(h, bufs[grad_x].cl) :
                    /\ h.log[e].prim = "reduce_op"
                    /\ h.log[e].ins = <<tmp>>
                    /\ \A e2 \in 1..Len(h.log) : h.log[e2].grad = 2 => e < e2
          /\ nig[2] => bufs[grad_y].cl # bufs[tmp].cl
          /\ (nig[1] /\ nig[2]) => bufs[grad_x].cl # bufs[grad_y].cl

(* every call made so far, and no storage written by two of them *)
Frames ==
  /\ \A i \in 1..Len(history) : CallFrame(history[i])
  /\ \A i, j \in 1..Len(history) : i < j => history[i].nmem1 <= history[j].nmem

(* C10: in any sequence of forward and backward calls on one heap, a call  *)
(* changes no buffer that exists when it is made and no context of an      *)
(* earlier call, and after it, for every call made so far: the buffers     *)
(* passed to it (inputs, grad_output) and saved by it hold what they held; *)
(* every primitive it dispatched wrote a buffer allocated inside the call; *)
(* only the scratch buffers tmp (Mul, Pow), ret2 (Max) and ret (Sum) of    *)
(* backward were written in place or more than once; in Mul and Pow        *)
(* backward grad_x was reduced into its own buffer before tmp was          *)
(* overwritten for grad_y, and grad_x, grad_y and tmp are distinct; and    *)
(* only Reshape returned a buffer that shares storage with its argument,   *)
(* without dispatching a primitive.                                        *)
C10_Frame ==
  [][/\ \A c \in 1..Len(mem) : mem'[c] = mem[c]
     /\ \A b \in 1..Len(bufs) : bufs'[b] = bufs[b]
     /\ \A i \in 1..Len(history) : history'[i] = history[i]
     /\ Frames']_vars

(* Reshape.forward of x, then Pow.forward of its result and x, which share *)
(* storage, then Pow.backward for both gradients with the forward result   *)
(* as grad_output                                                          *)
C10_Witness ==
  /\ Len(history) = 3
  /\ history[1].op = "Reshape" /\ history[1].dir = "forward" /\ history[1].err = ""
  /\ history[1].x = 1
  /\ bufs[history[1].out[1]].cl = bufs[1].cl
  /\ history[2].op = "Pow" /\ history[2].dir = "forward" /\ history[2].err = ""
  /\ history[2].x = history[1].out[1]
  /\ history[2].y = 1
  /\ history[3].op = "Pow" /\ history[3].dir = "backward"
  /\ history[3].ctx = history[2].ctx
  /\ history[3].ctx.needs_input_grad = <<TRUE, TRUE>>
  /\ history[3].g = history[2].out[1]
  /\ Len(history[3].log) = 6
  /\ Cardinality(Writes(history[3], bufs[history[3].nbufs + 1].cl)) = 4
  /\ InPlace(history[3], 2)
  /\ bufs[out[1]].cl # bufs[out[2]].cl
  /\ mem[bufs[1].cl] = [k \in 1..MaxSide |-> Sym("x", k - 1)]

=============================================================================
